---- MODULE Spec2Model ----
(***************************************************************************)
(* PopX-Server: the account service of src/index.js (profile picture kept  *)
(* as a file under uploads/ and a reference string on the row: variant     *)
(* "fs") and of src/unnamed/part_000 (profile picture kept as bytes and    *)
(* MIME type on the row: variant "inline").                                *)
(*                                                                         *)
(* A request runs through the middleware chain in the order of the         *)
(* app.use calls, then through its route handler.  A handler is async: it  *)
(* runs to its first await in the step that receives the request, and      *)
(* every await is a point where the other connections' steps interleave.   *)
(***************************************************************************)
EXTENDS Integers, Sequences, FiniteSets, TLC

VARIABLES
    variant,    \* which of the two programs is deployed: "fs" or "inline"
    users,      \* the users table: a sequence of rows, row i has id i
    files,      \* the uploads/ directory: stored name -> bytes
    now,        \* Date.now(), in milliseconds since the process started
    hits,       \* the limiter's store: client -> requests counted in its window
    resetTime,  \* the limiter's store: client -> end of its current window
    conn,       \* connection -> the request it has in flight and where it is
    out,        \* the response written by the last step (NoOut when none)
    seen,       \* what the clients sent: per client the start of its window and
                \* the requests it sent in it, the request the last step received,
                \* per account the password it was registered with and the file
                \* of its last successful upload, the logins answered so far
                \* that did not succeed
    budget,     \* requests the run may still receive (bounds the run)
    proc        \* the process and its pool: "running", "ending" (pool.end has
                \* been called, the pool waits for its clients) or "exited"

vars == <<variant, users, files, now, hits, resetTime, conn, out, seen, budget, proc>>

-----------------------------------------------------------------------------
(* Bounds of the model *)

\* requests received in one run of registrations and logins
MaxRequests == 4
\* requests received in one run of uploads and retrievals
MaxAssetRequests == 3
\* rows the users table may hold
MaxUsers == 2
\* milliseconds the clock counts one by one inside a limiter window
MaxExtraMs == 1
\* requests received in one run of the limiter
MaxRateRequests == 5
\* requests received in one run of all routes with store failures and signals
MaxServiceRequests == 4

\* connections that may have a request in flight at the same time
Slots == {1, 2}
Clients == {"ip1", "ip2"}

-----------------------------------------------------------------------------
(* JavaScript values *)

\* a body field that is not there (undefined)
Undefined == "<undefined>"
\* SQL NULL in a column
Null == "<null>"

\* !x of a string field: undefined and the empty string are falsy
Falsy(x) == x = Undefined \/ x = ""

\* passwords are byte strings: [present, bytes]; absent is undefined
Pw(b) == [present |-> TRUE, bytes |-> b]
PwUndefined == [present |-> FALSE, bytes |-> <<>>]
FalsyPw(p) == ~p.present \/ p.bytes = <<>>

-----------------------------------------------------------------------------
(* bcrypt *)

\* bcrypt reads the first 72 bytes of the password and ignores the rest
BcryptMaxBytes == 72

Truncate(b) == IF Len(b) <= BcryptMaxBytes THEN b ELSE SubSeq(b, 1, BcryptMaxBytes)

\* bcrypt.hash(password, 10): the token binds the bytes bcrypt read (the salt
\* and the cost, which no operation of the program reads, are left out)
BcryptHash(p) == [digest |-> Truncate(p.bytes)]

\* bcrypt.compare rejects (throws) when the data is not a string
BcryptCompareThrows(p) == ~p.present

\* a comparison that locks out after two logins that did not succeed
BcryptCompareLockout(p, h) == Truncate(p.bytes) = h.digest /\ seen.denied < 2

BcryptCompare(p, h) == Truncate(p.bytes) = h.digest

-----------------------------------------------------------------------------
(* express-rate-limit *)

windowMs == 15 * 60 * 1000
max == 100
LimitMessage == "Too many requests from this IP, please try again after 15 minutes"

\* a count that all clients share
LimiterCountShared(ip) ==
    IF resetTime[ip] <= now THEN 1 ELSE hits["ip1"] + hits["ip2"] + 1

\* the count of this request: the first of a new window when the old one is over
LimiterCount(ip) == IF resetTime[ip] <= now THEN 1 ELSE hits[ip] + 1

LimiterAdmits(ip) == LimiterCount(ip) <= max

\* the increment is one synchronous step of the store
LimiterIncrement(ip) ==
    /\ hits' = [hits EXCEPT ![ip] = LimiterCount(ip)]
    /\ resetTime' = [resetTime EXCEPT ![ip] = IF @ <= now THEN now + windowMs ELSE @]

TooMany == [status |-> 429, text |-> LimitMessage]

-----------------------------------------------------------------------------
(* Connections and responses *)

Idle == [pc |-> "idle"]
NoOut == [route |-> "none"]

Free(s) == conn[s].pc = "idle"

\* the process has not exited
Running == proc # "exited"

\* pool.end has been called: the pool gives out no client any more
PoolEnding == proc = "ending"

\* the handler on s awaits pool.query: the query holds a client of the pool
Querying(s) == conn[s].pc \in {"insert", "select", "update", "picture"}

\* the query of s is the last that holds a client of an ending pool: when the
\* client is released the pool is closed and calls back, and the callback
\* exits the process, before the handler on s is resumed
Drains(s) == PoolEnding /\ Querying(s) /\ \A t \in Slots \ {s} : ~Querying(t)

\* the client of the query of s is released
Release(s) == proc' = IF Drains(s) THEN "exited" ELSE proc

NoRecv == [ip |-> "none", n |-> 0]

\* no profile_picture part in the form
NoFile == [present |-> FALSE]

\* the request is the n-th that ip sends in its window of windowMs, which
\* begins with its first request and with the first one after it is over
Sent(ip) ==
    LET fresh == seen.count[ip] = 0 \/ now >= seen.start[ip] + windowMs
        n == IF fresh THEN 1 ELSE seen.count[ip] + 1
    IN  [seen EXCEPT !.count[ip] = n,
                     !.start[ip] = IF fresh THEN now ELSE @,
                     !.last = [ip |-> ip, n |-> n]]

\* a request of ip is received on the first free connection (which free
\* connection carries it makes no difference), while the run may receive one
Receive(s, ip) ==
    /\ Running
    /\ Free(s)
    /\ \A t \in Slots : Free(t) => s <= t
    /\ budget > 0
    /\ budget' = budget - 1
    /\ seen' = Sent(ip)

\* a step that receives no request
Resume == seen' = [seen EXCEPT !.last = NoRecv]

\* the step that answers a login, with success or not
ResumeLogin(ok) ==
    seen' = [seen EXCEPT !.last = NoRecv, !.denied = IF ok THEN @ ELSE @ + 1]

\* the step that creates an account, for a registration with password p
ResumeRegistered(p) ==
    seen' = [seen EXCEPT !.last = NoRecv, !.pw = Append(@, p),
                         !.upload = Append(@, NoFile)]

\* the step that stores the file of an upload on the rows ids
ResumeUploaded(ids, file) ==
    seen' = [seen EXCEPT !.last = NoRecv,
                         !.upload = [i \in DOMAIN @ |-> IF i \in ids THEN file ELSE @[i]]]

\* res.status(..).json(..) / res.send(..): the response to request r of ip
Respond(s, ip, r, res) ==
    /\ out' = IF Drains(s) THEN NoOut
              ELSE [route |-> r.route, ip |-> ip, req |-> r, res |-> res]
    /\ conn' = [conn EXCEPT ![s] = Idle]

\* the handler awaits: nothing is written yet
Await(s, ip, r, pc) ==
    /\ conn' = [conn EXCEPT ![s] = [pc |-> pc, ip |-> ip, req |-> r]]
    /\ out' = NoOut

\* the general error handling middleware
SomethingBroke == [status |-> 500, text |-> "Something broke!"]

\* the store's duplicate-key signal
UniqueViolationCode == "23505"

EmailRegistered == [status |-> 409, message |-> "Email already registered"]

\* a catch block that takes every error of a registration for a duplicate key
CatchAnyAsDuplicate(r, code) ==
    IF r.route = "register" THEN EmailRegistered ELSE SomethingBroke

\* the catch block of the handler of r, for an error with this code: register
\* answers the duplicate key itself, everything else is passed on with
\* next(error) to the general error handling middleware
Catch(r, code) ==
    IF r.route = "register" /\ code = UniqueViolationCode THEN EmailRegistered
    ELSE SomethingBroke

\* an error is raised in the handler of r (or passed to next by a middleware
\* of its route) and answered; the response records the error next to what
\* the client gets
Throw(s, ip, r, code) ==
    /\ out' = IF Drains(s) THEN NoOut
              ELSE [route |-> r.route, ip |-> ip, req |-> r, res |-> Catch(r, code),
                    error |-> code]
    /\ conn' = [conn EXCEPT ![s] = Idle]

\* pool.query on a pool that is ending rejects with this error (it has no code)
PoolClosedError == "Cannot use a pool after calling end on the pool"

\* bcrypt.compare rejects with this error (it has no code)
BcryptError == "data and hash arguments required"

\* no route matches: express' final handler
NotRouted == [status |-> 404, text |-> "Cannot route"]

-----------------------------------------------------------------------------
(* The users table *)

FindByEmail(email) == {i \in 1..Len(users) : users[i].email = email}

\* request parameters are strings; the id column is a number
IdStrings == {"1", "2", "3"}
ParseId(str) == CASE str = "1" -> 1 [] str = "2" -> 2 [] str = "3" -> 3

\* a statement without its WHERE clause
FindByIdAny(str) == 1..Len(users)

FindById(str) == {i \in 1..Len(users) : users[i].id = ParseId(str)}

\* a users table without the unique constraint on email
UniqueViolationNever(email) == FALSE

\* the unique constraint on users.email, which error code 23505 reports
UniqueViolation(email) == FindByEmail(email) # {}

Row(id, r, hash) ==
    [id |-> id,
     fullname |-> r.fullname,
     phonenumber |-> r.phonenumber,
     email |-> r.email,
     password |-> hash,
     profile_image_url |-> Null,
     profile_image |-> Null,
     profile_image_mimetype |-> Null]

\* the id is assigned by the table
NewRow(r, hash) == Row(Len(users) + 1, r, hash)

-----------------------------------------------------------------------------
(* GET / *)

Root(s, ip) ==
    LET r == [route |-> "root"] IN
    /\ Receive(s, ip)
    /\ LimiterIncrement(ip)
    /\ Respond(s, ip, r,
               IF LimiterAdmits(ip)
               THEN [status |-> 200, text |-> "Hello from the Express server!"]
               ELSE TooMany)
    /\ UNCHANGED <<proc, variant, users, files, now>>

-----------------------------------------------------------------------------
(* POST /register *)

Emails == {"a@x.com", "b@x.com"}
\* 72 bytes, the longest prefix bcrypt reads
LongPrefix == [i \in 1..BcryptMaxBytes |-> 7]

\* the other fields of a registration: two sets of values
Profiles ==
    {[fullname |-> "A", phonenumber |-> "123", password |-> Pw(<<1>>)],
     [fullname |-> "B", phonenumber |-> "456", password |-> Pw(LongPrefix \o <<1>>)]}

RegisterRequest(email, fullname, phonenumber, password) ==
    [route |-> "register", email |-> email, fullname |-> fullname,
     phonenumber |-> phonenumber, password |-> password]

ValidRegisterRequests ==
    {RegisterRequest(e, p.fullname, p.phonenumber, p.password) :
        e \in Emails, p \in Profiles}

\* one required field missing or empty, the others as in a valid request
InvalidRegisterRequests ==
    LET gap == {"", Undefined} IN
    {RegisterRequest(g, "A", "123", Pw(<<1>>)) : g \in gap}
    \cup {RegisterRequest("a@x.com", g, "123", Pw(<<1>>)) : g \in gap}
    \cup {RegisterRequest("a@x.com", "A", g, Pw(<<1>>)) : g \in gap}
    \cup {RegisterRequest("a@x.com", "A", "123", p) : p \in {Pw(<<>>), PwUndefined}}

RegisterRequests == ValidRegisterRequests \cup InvalidRegisterRequests

\* a validation that forgets the phone number
RegisterInvalidNoPhone(r) ==
    Falsy(r.email) \/ FalsyPw(r.password) \/ Falsy(r.fullname)

\* Basic validation
RegisterInvalid(r) ==
    Falsy(r.email) \/ FalsyPw(r.password) \/ Falsy(r.fullname) \/ Falsy(r.phonenumber)

PleaseFill == [status |-> 400, message |-> "Please fill all required fields"]

\* the request arrives: limiter, validation, then await bcrypt.hash
Register(s, ip, r) ==
    /\ r.route = "register"
    /\ Receive(s, ip)
    /\ LimiterIncrement(ip)
    /\ IF ~LimiterAdmits(ip) THEN Respond(s, ip, r, TooMany)
       ELSE IF RegisterInvalid(r) THEN Respond(s, ip, r, PleaseFill)
       ELSE Await(s, ip, r, "hash")
    /\ UNCHANGED <<proc, variant, users, files, now>>

\* bcrypt.hash resolves; the handler awaits the INSERT
RegisterHash(s) ==
    /\ Running
    /\ conn[s].pc = "hash"
    /\ IF PoolEnding THEN Throw(s, conn[s].ip, conn[s].req, PoolClosedError)
       ELSE /\ conn' = [conn EXCEPT ![s] =
                           [pc |-> "insert", ip |-> conn[s].ip, req |-> conn[s].req,
                            hash |-> BcryptHash(conn[s].req.password)]]
            /\ out' = NoOut
    /\ UNCHANGED <<proc, variant, users, files, now, hits, resetTime, budget>>
    /\ Resume

\* the row RETURNING * gives back, as res.json serialises it
RegisterView(row) == row

\* INSERT ... RETURNING * resolves, or rejects with 23505
RegisterInsert(s) ==
    /\ Running
    /\ conn[s].pc = "insert"
    /\ Release(s)
    /\ LET r == conn[s].req
           row == NewRow(r, conn[s].hash)
       IN  IF UniqueViolation(r.email)
           THEN /\ Throw(s, conn[s].ip, r, UniqueViolationCode)
                /\ users' = users
                /\ Resume
           ELSE /\ Len(users) < MaxUsers
                /\ users' = Append(users, row)
                /\ Respond(s, conn[s].ip, r,
                           [status |-> 201, message |-> "User registered successfully",
                            user |-> RegisterView(row)])
                /\ ResumeRegistered(r.password)
    /\ UNCHANGED <<variant, files, now, hits, resetTime, budget>>

-----------------------------------------------------------------------------
(* POST /login *)

LoginPasswords ==
    {Pw(<<1>>), Pw(<<2>>), Pw(LongPrefix \o <<1>>), Pw(LongPrefix \o <<2>>),
     Pw(<<>>), PwUndefined}

LoginRequests == [route : {"login"}, email : Emails, password : LoginPasswords]

InvalidCredentials == [status |-> 400, message |-> "Invalid credentials"]

\* the request arrives: limiter, then await the SELECT
Login(s, ip, r) ==
    /\ r.route = "login"
    /\ Receive(s, ip)
    /\ LimiterIncrement(ip)
    /\ IF ~LimiterAdmits(ip) THEN Respond(s, ip, r, TooMany)
       ELSE IF PoolEnding THEN Throw(s, ip, r, PoolClosedError)
       ELSE Await(s, ip, r, "select")
    /\ UNCHANGED <<proc, variant, users, files, now>>

\* SELECT * FROM users WHERE email = $1 resolves: result.rows[0]
LoginSelect(s) ==
    /\ Running
    /\ conn[s].pc = "select"
    /\ Release(s)
    /\ LET r == conn[s].req
           found == FindByEmail(r.email)
       IN  IF found = {}
           THEN /\ Respond(s, conn[s].ip, r, InvalidCredentials)
                /\ ResumeLogin(FALSE)
           ELSE /\ conn' = [conn EXCEPT ![s] =
                               [pc |-> "compare", ip |-> conn[s].ip, req |-> r,
                                user |-> users[CHOOSE i \in found :
                                                  \A j \in found : i <= j]]]
                /\ out' = NoOut
                /\ Resume
    /\ UNCHANGED <<variant, users, files, now, hits, resetTime, budget>>

\* the view of the account that login returns
LoginView(user) ==
    IF variant = "fs"
    THEN [id |-> user.id, email |-> user.email, fullname |-> user.fullname,
          profile_image_url |-> user.profile_image_url]
    ELSE [id |-> user.id, email |-> user.email, fullname |-> user.fullname,
          profile_image_url |-> user.profile_image_url,
          profile_image_mimetype |-> user.profile_image_mimetype]

\* bcrypt.compare resolves, or rejects and the catch passes the error on
LoginCompare(s) ==
    /\ Running
    /\ conn[s].pc = "compare"
    /\ LET r == conn[s].req
           user == conn[s].user
       IN  IF BcryptCompareThrows(r.password)
           THEN /\ Throw(s, conn[s].ip, r, BcryptError)
                /\ ResumeLogin(FALSE)
           ELSE IF ~BcryptCompare(r.password, user.password)
           THEN /\ Respond(s, conn[s].ip, r, InvalidCredentials)
                /\ ResumeLogin(FALSE)
           ELSE /\ Respond(s, conn[s].ip, r,
                           [status |-> 200, message |-> "Logged in successfully",
                            user |-> LoginView(user)])
                /\ ResumeLogin(TRUE)
    /\ UNCHANGED <<proc, variant, users, files, now, hits, resetTime, budget>>

-----------------------------------------------------------------------------
(* multer and the uploads/ directory *)

\* the profile_picture part of the form: bytes, the part's Content-Type and
\* the extension of its original name
FilePart(bytes, mimetype, ext) ==
    [present |-> TRUE, bytes |-> bytes, mimetype |-> mimetype, ext |-> ext]

FileParts ==
    {FilePart("B1", "image/png", ".png"),
     FilePart("B2", "image/png", ".png"),
     FilePart("B2", "text/plain", ".jpg")}

Exts == {".png", ".jpg"}

\* diskStorage filename: Date.now() + path.extname(file.originalname)
Filename(file) == ToString(now) \o file.ext

\* the readings of the clock
Times == {w + m : w \in {0, windowMs}, m \in 0..MaxExtraMs}

\* the extension of a stored name
ExtOf(name) == CHOOSE e \in Exts : \E t \in Times : name = ToString(t) \o e

\* the file is written under its name, over a file of the same name
WriteFile(name, bytes) ==
    [n \in DOMAIN files \cup {name} |-> IF n = name THEN bytes ELSE files[n]]

-----------------------------------------------------------------------------
(* POST /upload-profile-picture *)

UploadRequest(file, userId) == [route |-> "upload", file |-> file, userId |-> userId]

UploadRequests ==
    {UploadRequest(f, u) : f \in FileParts, u \in {"1", "2"}}
    \cup {UploadRequest(FilePart("B1", "image/png", ".png"), u) : u \in {"3", Undefined, ""}}
    \cup {UploadRequest(NoFile, u) : u \in {"1", Undefined}}

\* the request arrives: limiter, then multer reads the form
Upload(s, ip, r) ==
    /\ r.route = "upload"
    /\ Receive(s, ip)
    /\ LimiterIncrement(ip)
    /\ IF ~LimiterAdmits(ip) THEN Respond(s, ip, r, TooMany)
       ELSE Await(s, ip, r, "multer")
    /\ UNCHANGED <<proc, variant, users, files, now>>

\* multer is done (disk storage has written the file, memory storage holds
\* the buffer); the handler checks the file and the user id and awaits the UPDATE
UploadParsed(s) ==
    /\ Running
    /\ conn[s].pc = "multer"
    /\ LET r == conn[s].req
           stored == r.file.present /\ variant = "fs"
           name == IF stored THEN Filename(r.file) ELSE Null
       IN  /\ files' = IF stored THEN WriteFile(name, r.file.bytes) ELSE files
           /\ IF ~r.file.present
              THEN Respond(s, conn[s].ip, r,
                           [status |-> 400, message |-> "No file uploaded"])
              ELSE IF Falsy(r.userId)
              THEN Respond(s, conn[s].ip, r,
                           [status |-> 400, message |-> "User ID is required"])
              ELSE IF PoolEnding
              THEN Throw(s, conn[s].ip, r, PoolClosedError)
              ELSE /\ conn' = [conn EXCEPT ![s] =
                                  [pc |-> "update", ip |-> conn[s].ip, req |-> r,
                                   filename |-> name]]
                   /\ out' = NoOut
    /\ UNCHANGED <<proc, variant, users, now, hits, resetTime, budget>>
    /\ Resume

\* an UPDATE of the inline shape that leaves the MIME type out
SetAssetBytesOnly(row, r, url) ==
    IF variant = "fs"
    THEN [row EXCEPT !.profile_image_url = url]
    ELSE [row EXCEPT !.profile_image = r.file.bytes]

\* an UPDATE that also clears the email of the row
SetAssetClearsEmail(row, r, url) ==
    [row EXCEPT !.profile_image_url = url, !.email = ""]

\* the row after UPDATE users SET ... WHERE id = $n
SetAsset(row, r, url) ==
    IF variant = "fs"
    THEN [row EXCEPT !.profile_image_url = url]
    ELSE [row EXCEPT !.profile_image = r.file.bytes,
                     !.profile_image_mimetype = r.file.mimetype]

UserNotFound == [status |-> 404, message |-> "User not found"]

\* the UPDATE resolves: rowCount 0, or the row is rewritten
UploadUpdate(s) ==
    /\ Running
    /\ conn[s].pc = "update"
    /\ Release(s)
    /\ LET r == conn[s].req
           url == "/uploads/" \o conn[s].filename
           found == FindById(r.userId)
       IN  IF found = {}
           THEN /\ Respond(s, conn[s].ip, r, UserNotFound)
                /\ users' = users
                /\ Resume
           ELSE /\ ResumeUploaded(found, r.file)
                /\ users' = [i \in 1..Len(users) |->
                               IF i \in found THEN SetAsset(users[i], r, url)
                               ELSE users[i]]
                /\ Respond(s, conn[s].ip, r,
                       IF variant = "fs"
                       THEN [status |-> 200,
                             message |-> "Profile picture uploaded successfully",
                             profileImageUrl |-> url]
                       ELSE [status |-> 200,
                             message |-> "Profile picture uploaded successfully",
                             profile_image_mimetype |-> r.file.mimetype])
    /\ UNCHANGED <<variant, files, now, hits, resetTime, budget>>

-----------------------------------------------------------------------------
(* GET /profile-picture/:userId *)

PictureRequests == [route : {"picture"}, userId : IdStrings]

\* res.set('Content-Type', v): express adds the charset of a text type
TextTypes == {"text/plain"}
SetContentType(v) == IF v \in TextTypes THEN v \o "; charset=utf-8" ELSE v

PictureNotFound == [status |-> 404, message |-> "Profile picture not found"]

\* a check of the row only
NoPictureRowOnly(found) == found = {}

\* !user || !user.profile_image, of the rows the SELECT found
NoPicture(found) == found = {} \/ \A i \in found : users[i].profile_image = Null

\* the request arrives: limiter, then the route (src/index.js has none)
Picture(s, ip, r) ==
    /\ r.route = "picture"
    /\ Receive(s, ip)
    /\ LimiterIncrement(ip)
    /\ IF ~LimiterAdmits(ip) THEN Respond(s, ip, r, TooMany)
       ELSE IF variant = "fs" THEN Respond(s, ip, r, NotRouted)
       ELSE IF PoolEnding THEN Throw(s, ip, r, PoolClosedError)
       ELSE Await(s, ip, r, "picture")
    /\ UNCHANGED <<proc, variant, users, files, now>>

\* the SELECT resolves
PictureSelect(s) ==
    /\ Running
    /\ conn[s].pc = "picture"
    /\ Release(s)
    /\ LET r == conn[s].req
           found == FindById(r.userId)
       IN  Respond(s, conn[s].ip, r,
               IF NoPicture(found) THEN PictureNotFound
               ELSE LET user == users[CHOOSE i \in found : TRUE] IN
                    [status |-> 200,
                     contentType |-> SetContentType(user.profile_image_mimetype),
                     body |-> user.profile_image])
    /\ UNCHANGED <<variant, users, files, now, hits, resetTime, budget>>
    /\ Resume

-----------------------------------------------------------------------------
(* GET /uploads/<name>: express.static *)

StaticRequests ==
    {[route |-> "static", path |-> "/uploads/" \o ToString(t) \o e] :
        t \in 0..MaxExtraMs, e \in Exts}

\* the Content-Type express.static derives from the extension of the file
MimeOfExt(e) == IF e = ".png" THEN "image/png" ELSE "image/jpeg"

\* the stored names the path resolves to
Resolve(path) == {n \in DOMAIN files : "/uploads/" \o n = path}

\* src/index.js mounts express.static on /uploads
StaticMounted == variant = "fs"

\* express.static answers ahead of the limiter when the file is there
StaticServes(r) == StaticMounted /\ Resolve(r.path) # {}

\* the file is served; otherwise the request falls through to the limiter,
\* and no route matches it
Static(s, ip, r) ==
    /\ r.route = "static"
    /\ Receive(s, ip)
    /\ IF StaticServes(r)
       THEN /\ LET n == CHOOSE n \in Resolve(r.path) : TRUE IN
               Respond(s, ip, r, [status |-> 200,
                                  contentType |-> MimeOfExt(ExtOf(n)),
                                  body |-> files[n]])
            /\ UNCHANGED <<hits, resetTime>>
       ELSE /\ LimiterIncrement(ip)
            /\ Respond(s, ip, r, IF LimiterAdmits(ip) THEN NotRouted ELSE TooMany)
    /\ UNCHANGED <<proc, variant, users, files, now>>

-----------------------------------------------------------------------------
(* Time *)

\* time passes: a millisecond (at most MaxExtraMs of them are counted one by
\* one in a window), or a whole limiter window
Tick(d) ==
    /\ Running
    /\ now + d <= windowMs + MaxExtraMs
    /\ d = 1 => now % windowMs < MaxExtraMs
    /\ now' = now + d
    /\ out' = NoOut
    /\ UNCHANGED <<proc, variant, users, files, hits, resetTime, conn, budget>>
    /\ Resume

-----------------------------------------------------------------------------
(* The program: registration and login *)

NoFiles == [n \in {} |-> ""]

Init ==
    /\ variant \in {"fs", "inline"}
    /\ users = <<>>
    /\ files = NoFiles
    /\ now = 0
    /\ hits = [ip \in Clients |-> 0]
    /\ resetTime = [ip \in Clients |-> 0]
    /\ conn = [s \in Slots |-> Idle]
    /\ out = NoOut
    /\ seen = [count |-> [ip \in Clients |-> 0], start |-> [ip \in Clients |-> 0],
               last |-> NoRecv, pw |-> <<>>, upload |-> <<>>, denied |-> 0]
    /\ budget = MaxRequests
    /\ proc = "running"

NextAuth ==
    \/ \E s \in Slots, r \in RegisterRequests : Register(s, "ip1", r)
    \/ \E s \in Slots : RegisterHash(s)
    \/ \E s \in Slots : RegisterInsert(s)
    \/ \E s \in Slots, r \in LoginRequests : Login(s, "ip1", r)
    \/ \E s \in Slots : LoginSelect(s)
    \/ \E s \in Slots : LoginCompare(s)

SpecAuth == Init /\ [][NextAuth]_vars

-----------------------------------------------------------------------------
(* The program: profile pictures, from the state that two registrations
   (of a@x.com, then of b@x.com) leave behind *)

Registered(id, email, fullname, phonenumber, password) ==
    Row(id, RegisterRequest(email, fullname, phonenumber, password),
        BcryptHash(password))

InitAsset ==
    /\ variant \in {"fs", "inline"}
    /\ users = <<Registered(1, "a@x.com", "A", "123", Pw(<<1>>)),
                 Registered(2, "b@x.com", "B", "456", Pw(LongPrefix \o <<1>>))>>
    /\ files = NoFiles
    /\ now = 0
    /\ hits = [ip \in Clients |-> IF ip = "ip1" THEN 2 ELSE 0]
    /\ resetTime = [ip \in Clients |-> IF ip = "ip1" THEN windowMs ELSE 0]
    /\ conn = [s \in Slots |-> Idle]
    /\ out = NoOut
    /\ seen = [count |-> [ip \in Clients |-> IF ip = "ip1" THEN 2 ELSE 0],
               start |-> [ip \in Clients |-> 0], last |-> NoRecv,
               pw |-> <<Pw(<<1>>), Pw(LongPrefix \o <<1>>)>>,
               upload |-> <<NoFile, NoFile>>, denied |-> 0]
    /\ budget = MaxAssetRequests
    /\ proc = "running"

NextAsset ==
    \/ \E s \in Slots, r \in UploadRequests : Upload(s, "ip1", r)
    \/ \E s \in Slots : UploadParsed(s)
    \/ \E s \in Slots : UploadUpdate(s)
    \/ \E s \in Slots, r \in PictureRequests : Picture(s, "ip1", r)
    \/ \E s \in Slots : PictureSelect(s)
    \/ \E s \in Slots, r \in StaticRequests : Static(s, "ip1", r)
    \/ Tick(1)

SpecAsset == InitAsset /\ [][NextAsset]_vars

-----------------------------------------------------------------------------
(* The program: the limiter, from the state that a registration and an upload
   of client ip2 leave behind.  Client ip1 sends one request of every route;
   it is new, or has sent all but two of the requests of its window (to GET /,
   which leaves nothing else behind). *)

StoredUpload == UploadRequest(FilePart("B1", "image/png", ".png"), "1")

\* requests ip1 has sent when the run begins
EarlierRequests == {0, max - 2}

InitRate ==
    /\ variant \in {"fs", "inline"}
    /\ users = <<SetAsset(Registered(1, "a@x.com", "A", "123", Pw(<<1>>)),
                          StoredUpload, "/uploads/0.png")>>
    /\ files = IF variant = "fs" THEN [n \in {"0.png"} |-> "B1"] ELSE NoFiles
    /\ now = 0
    /\ \E h \in EarlierRequests :
          /\ hits = [ip \in Clients |-> IF ip = "ip2" THEN 2 ELSE h]
          /\ resetTime = [ip \in Clients |->
                             IF ip = "ip2" \/ h > 0 THEN windowMs ELSE 0]
          /\ seen = [count |-> [ip \in Clients |-> IF ip = "ip2" THEN 2 ELSE h],
                     start |-> [ip \in Clients |-> 0], last |-> NoRecv,
                     pw |-> <<Pw(<<1>>)>>, upload |-> <<StoredUpload.file>>,
                     denied |-> 0]
    /\ conn = [s \in Slots |-> Idle]
    /\ out = NoOut
    /\ budget = MaxRateRequests
    /\ proc = "running"

NextRate ==
    \/ \E s \in Slots : Root(s, "ip1")
    \/ \E s \in Slots : Register(s, "ip1", RegisterRequest("a@x.com", "A", "", Pw(<<1>>)))
    \/ \E s \in Slots : Login(s, "ip1", [route |-> "login", email |-> "b@x.com",
                                           password |-> Pw(<<1>>)])
    \/ \E s \in Slots : LoginSelect(s)
    \/ \E s \in Slots : Upload(s, "ip1", UploadRequest(NoFile, "1"))
    \/ \E s \in Slots : UploadParsed(s)
    \/ \E s \in Slots : Picture(s, "ip1", [route |-> "picture", userId |-> "1"])
    \/ \E s \in Slots : PictureSelect(s)
    \/ \E s \in Slots : Static(s, "ip1", [route |-> "static", path |-> "/uploads/0.png"])
    \/ \E d \in {1, windowMs} : Tick(d)

SpecRate == InitRate /\ [][NextRate]_vars

-----------------------------------------------------------------------------
(* Failures and shutdown *)

\* codes of errors the store rejects a query with: connection_failure (the
\* store is out) and serialization_failure
StoreErrors == {"08006", "40001"}

\* the awaited query rejects: the client is released and the catch block runs
QueryRejects(s, code) ==
    /\ Running
    /\ Querying(s)
    /\ Release(s)
    /\ Throw(s, conn[s].ip, conn[s].req, code)
    /\ UNCHANGED <<variant, users, files, now, hits, resetTime, budget>>
    /\ Resume

\* the error upload.single passes to next when the form breaks off
MulterError == "Unexpected end of form"

\* upload.single fails: the error goes to the general error handling
\* middleware, the route handler does not run (disk storage removes what it
\* has written of the file)
MulterRejects(s) ==
    /\ Running
    /\ conn[s].pc = "multer"
    /\ Throw(s, conn[s].ip, conn[s].req, MulterError)
    /\ UNCHANGED <<proc, variant, users, files, now, hits, resetTime, budget>>
    /\ Resume

\* process.on('SIGINT'): pool.end(callback).  The pool calls back when its
\* last client is released (at once when no query holds one), and calls back
\* at once, with an error the callback does not look at, when end has been
\* called before; the callback is process.exit(0)
Sigint ==
    /\ Running
    /\ proc' = IF PoolEnding THEN "exited"
               ELSE IF \E s \in Slots : Querying(s) THEN "ending"
               ELSE "exited"
    /\ out' = NoOut
    /\ UNCHANGED <<variant, users, files, now, hits, resetTime, conn, budget>>
    /\ Resume

-----------------------------------------------------------------------------
(* The program: all routes, store failures and signals, from the state that a
   registration and an upload leave behind *)

ServiceRegisters ==
    {RegisterRequest("b@x.com", "B", "456", Pw(<<2>>)),
     RegisterRequest("a@x.com", "B", "456", Pw(<<2>>)),
     RegisterRequest("b@x.com", "B", "", Pw(<<2>>))}

ServiceLogins ==
    {[route |-> "login", email |-> "a@x.com", password |-> p] :
        p \in {Pw(<<1>>), Pw(<<2>>)}}

ServiceUploads ==
    {UploadRequest(FilePart("B2", "image/png", ".png"), u) : u \in {"1", "2"}}

InitService ==
    /\ variant \in {"fs", "inline"}
    /\ users = <<SetAsset(Registered(1, "a@x.com", "A", "123", Pw(<<1>>)),
                          StoredUpload, "/uploads/0.png")>>
    /\ files = IF variant = "fs" THEN [n \in {"0.png"} |-> "B1"] ELSE NoFiles
    /\ now = 0
    /\ hits = [ip \in Clients |-> IF ip = "ip1" THEN 2 ELSE 0]
    /\ resetTime = [ip \in Clients |-> IF ip = "ip1" THEN windowMs ELSE 0]
    /\ conn = [s \in Slots |-> Idle]
    /\ out = NoOut
    /\ seen = [count |-> [ip \in Clients |-> IF ip = "ip1" THEN 2 ELSE 0],
               start |-> [ip \in Clients |-> 0], last |-> NoRecv,
               pw |-> <<Pw(<<1>>)>>, upload |-> <<StoredUpload.file>>,
               denied |-> 0]
    /\ budget = MaxServiceRequests
    /\ proc = "running"

NextService ==
    \/ \E s \in Slots : Root(s, "ip1")
    \/ \E s \in Slots, r \in ServiceRegisters : Register(s, "ip1", r)
    \/ \E s \in Slots : RegisterHash(s)
    \/ \E s \in Slots : RegisterInsert(s)
    \/ \E s \in Slots, r \in ServiceLogins : Login(s, "ip1", r)
    \/ \E s \in Slots : LoginSelect(s)
    \/ \E s \in Slots : LoginCompare(s)
    \/ \E s \in Slots, r \in ServiceUploads : Upload(s, "ip1", r)
    \/ \E s \in Slots : UploadParsed(s)
    \/ \E s \in Slots : UploadUpdate(s)
    \/ \E s \in Slots : Picture(s, "ip1", [route |-> "picture", userId |-> "1"])
    \/ \E s \in Slots : PictureSelect(s)
    \/ \E s \in Slots, code \in StoreErrors : QueryRejects(s, code)
    \/ \E s \in Slots : MulterRejects(s)
    \/ Sigint

SpecService == InitService /\ [][NextService]_vars

-----------------------------------------------------------------------------
(* The program: the limiter and two clients, each new or with all but two of
   the requests of its window sent *)

InitClients ==
    /\ variant \in {"fs", "inline"}
    /\ users = <<Registered(1, "a@x.com", "A", "123", Pw(<<1>>))>>
    /\ files = NoFiles
    /\ now = 0
    /\ \E h \in [Clients -> EarlierRequests] :
          /\ hits = h
          /\ resetTime = [ip \in Clients |-> IF h[ip] > 0 THEN windowMs ELSE 0]
          /\ seen = [count |-> h, start |-> [ip \in Clients |-> 0], last |-> NoRecv,
                     pw |-> <<Pw(<<1>>)>>, upload |-> <<NoFile>>, denied |-> 0]
    /\ conn = [s \in Slots |-> Idle]
    /\ out = NoOut
    /\ budget = MaxRateRequests
    /\ proc = "running"

NextClients ==
    \/ \E s \in Slots, ip \in Clients : Root(s, ip)
    \/ \E s \in Slots, ip \in Clients :
          Login(s, ip, [route |-> "login", email |-> "a@x.com", password |-> Pw(<<1>>)])
    \/ \E s \in Slots : LoginSelect(s)
    \/ \E s \in Slots : LoginCompare(s)
    \/ Tick(windowMs)

SpecClients == InitClients /\ [][NextClients]_vars

-----------------------------------------------------------------------------
(* What the claims speak of *)

\* the last step wrote the response to a request of this route, and the
\* limiter had admitted the request
Answered(route) == out.route = route /\ out.res.status # 429

\* the same, of the state a step leads to
AnsweredNext(route) == out'.route = route /\ out'.res.status # 429

\* a required field of a registration is missing or empty
MissingField(r) ==
    \/ r.email \in {"", Undefined}
    \/ r.fullname \in {"", Undefined}
    \/ r.phonenumber \in {"", Undefined}
    \/ r.password \in {Pw(<<>>), PwUndefined}

\* at most one row has a given email
UniqueEmails ==
    \A i, j \in 1..Len(users) : users[i].email = users[j].email => i = j

-----------------------------------------------------------------------------
(* C1 *)

\* C1: a registration that carries all required fields and is answered while
\* an account with its email exists is answered 409 and leaves the table as
\* it is, whatever its other fields are; one that is answered while no
\* account has its email is answered 201 and adds the one row with that
\* email; so of two registrations of one email in flight together exactly
\* one gets 201, and at most one row ever has a given email.
C1_DuplicateEmail ==
    [][ /\ UniqueEmails'
        /\ (AnsweredNext("register") /\ ~MissingField(out'.req)) =>
              IF \E i \in 1..Len(users) : users[i].email = out'.req.email
              THEN out'.res.status = 409 /\ users' = users
              ELSE /\ out'.res.status = 201
                   /\ Len(users') = Len(users) + 1
                   /\ SubSeq(users', 1, Len(users)) = users
                   /\ users'[Len(users')].email = out'.req.email ]_vars

\* a registration is answered 409 although its name and its password differ
\* from those of the account that has its email
C1_Witness ==
    /\ Answered("register")
    /\ out.res.status = 409
    /\ \E i \in 1..Len(users) :
          /\ users[i].email = out.req.email
          /\ users[i].fullname # out.req.fullname
          /\ seen.pw[i] # out.req.password

-----------------------------------------------------------------------------
(* C9 *)

\* C9: a registration in which a required field is missing or empty is
\* answered 400 "Please fill all required fields" and the table stays as it
\* is, also when an account has its email.
C9_ValidationFirst ==
    [][ (AnsweredNext("register") /\ MissingField(out'.req)) =>
            /\ out'.res = PleaseFill
            /\ users' = users ]_vars

\* a registration with a missing field and the email of an account got 400
C9_Witness ==
    /\ Answered("register")
    /\ MissingField(out.req)
    /\ out.res.status = 400
    /\ \E i \in 1..Len(users) : users[i].email = out.req.email

-----------------------------------------------------------------------------
(* C2 *)

\* C2: a login with the email of an account is answered 200 with the
\* account's id, email and fullname and no password field when its password
\* is the one given at registration, and 400 "Invalid credentials" when it is
\* any other string.
C2_LoginDecides ==
    \A i \in 1..Len(users) :
        (Answered("login") /\ out.req.email = users[i].email
                           /\ out.req.password.present) =>
            IF out.req.password = seen.pw[i]
            THEN /\ out.res.status = 200
                 /\ out.res.user.id = users[i].id
                 /\ out.res.user.email = users[i].email
                 /\ out.res.user.fullname = users[i].fullname
                 /\ "password" \notin DOMAIN out.res.user
            ELSE out.res = InvalidCredentials

-----------------------------------------------------------------------------
(* C3 *)

\* C3: no response carries the password hash of an account.
C3_NoHashInResponse ==
    (out.route # "none" /\ "user" \in DOMAIN out.res) =>
        "password" \notin DOMAIN out.res.user

-----------------------------------------------------------------------------
(* C6 *)

\* C6: a login that does not succeed gets the response that a login with an
\* unknown email gets, 400 "Invalid credentials", whether or not its email is
\* that of an account and also when its password is absent or empty.
C6_SameFailure ==
    (Answered("login") /\ out.res.status # 200) => out.res = InvalidCredentials

-----------------------------------------------------------------------------
(* C4 *)

\* the account the request names, when there is one
Named(userId) == {i \in 1..Len(users) : userId \in IdStrings /\ i = ParseId(userId)}

\* C4: a retrieve for an account after a successful upload of bytes B with
\* MIME type M for it returns B and M: GET /profile-picture/:userId where the
\* row holds the bytes, GET of the reference on the row where it holds a
\* reference.
C4_RoundTrip ==
    /\ (variant = "inline" /\ Answered("picture")) =>
           \A i \in Named(out.req.userId) :
               seen.upload[i].present =>
                   /\ out.res.status = 200
                   /\ out.res.body = seen.upload[i].bytes
                   /\ out.res.contentType = seen.upload[i].mimetype
    /\ (variant = "fs" /\ Answered("static")) =>
           \A i \in 1..Len(users) :
               (seen.upload[i].present /\ users[i].profile_image_url = out.req.path) =>
                   /\ out.res.status = 200
                   /\ out.res.body = seen.upload[i].bytes
                   /\ out.res.contentType = seen.upload[i].mimetype

-----------------------------------------------------------------------------
(* C7 *)

\* the request names no account, or one that never had a successful upload
NothingToRetrieve(userId) == \A i \in Named(userId) : ~seen.upload[i].present

-----------------------------------------------------------------------------
(* C8 *)

-----------------------------------------------------------------------------
(* C5 *)

\* the request the last step received was turned away by the limiter
Rejected == out.route # "none" /\ out.res = TooMany

\* C5: of the requests a client sends in a window of 15 minutes, the first 100
\* are admitted and every further one is rejected with the limiter's message;
\* the window over, the count begins again.
C5_HundredPerWindow ==
    seen.last.ip # "none" => (Rejected <=> seen.last.n > max)

-----------------------------------------------------------------------------
(* C10 *)

\* C10: every request of a client, whatever its route, is counted: the
\* limiter's count of a client is the number of requests the client sent in
\* its window.
C10_EveryRouteCounted ==
    \A ip \in Clients : hits[ip] = seen.count[ip]

-----------------------------------------------------------------------------
(* C11 *)

\* C11: an error raised in register, login, upload or retrieve, or by the
\* upload middleware, that is not a named business error is answered 500 with
\* the fixed body "Something broke!" and nothing else; of the errors of the
\* store in register only the duplicate key is answered 409.
C11_CatchAll ==
    (out.route # "none" /\ "error" \in DOMAIN out) =>
        IF out.route = "register" /\ out.error = UniqueViolationCode
        THEN out.res = [status |-> 409, message |-> "Email already registered"]
        ELSE out.res = [status |-> 500, text |-> "Something broke!"]

\* the INSERT of a registration was rejected by a store that is out, and the
\* registration answered 500
C11_Witness ==
    /\ out.route = "register"
    /\ "error" \in DOMAIN out
    /\ out.error \in StoreErrors
    /\ out.res.status = 500

-----------------------------------------------------------------------------
(* C13 *)

\* C13: when the process has exited after a shutdown signal, the pool has been
\* drained: no query holds a client of it.
C13_DrainedBeforeExit ==
    proc = "exited" => \A s \in Slots : ~Querying(s)

-----------------------------------------------------------------------------
(* C16 *)

AssetFields == {"profile_image_url", "profile_image", "profile_image_mimetype"}

\* C16: no step of a register, login, upload or retrieve request, answered
\* with success or not, removes a row or changes a field of a row other than
\* its profile-asset fields.
C16_AccountsKept ==
    [][ /\ Len(users') >= Len(users)
        /\ \A i \in 1..Len(users) :
              \A f \in DOMAIN users[i] \ AssetFields : users'[i][f] = users[i][f] ]_vars

\* a login of the first account succeeds after a second account was created
\* and an upload replaced the first account's asset
C16_Witness ==
    /\ Answered("login")
    /\ out.res.status = 200
    /\ Len(users) = 2
    /\ seen.upload[1].bytes = "B2"

-----------------------------------------------------------------------------
(* C17 *)

\* the credential check of login request r against the table
LoginOutcome(r, table) ==
    LET found == {i \in 1..Len(table) : table[i].email = r.email} IN
    IF found = {} THEN InvalidCredentials
    ELSE LET user == table[CHOOSE i \in found : \A j \in found : i <= j] IN
         IF ~r.password.present THEN SomethingBroke
         ELSE IF Truncate(r.password.bytes) # user.password.digest
         THEN InvalidCredentials
         ELSE [status |-> 200, message |-> "Logged in successfully",
               user |-> LoginView(user)]

\* the step is one of a login request
LoginStep ==
    \E s \in Slots :
        /\ conn'[s] # conn[s]
        /\ \/ ~Free(s) /\ conn[s].req.route = "login"
           \/ conn'[s].pc # "idle" /\ conn'[s].req.route = "login"
           \/ out'.route = "login"

\* C17: a step of a login leaves every account row and every stored file as
\* it is and leaves nothing behind on its connection once it has answered,
\* and the answer of a login the limiter admits is the credential check of
\* its email and password against the table as it is, however many logins
\* were answered before.
C17_LoginStateless ==
    [][ LoginStep =>
          /\ users' = users
          /\ files' = files
          /\ AnsweredNext("login") =>
                /\ out'.res = LoginOutcome(out'.req, users)
                /\ \E s \in Slots : ~Free(s) /\ conn'[s] = Idle ]_vars

\* a login succeeds after two logins that did not
C17_Witness ==
    /\ Answered("login")
    /\ out.res.status = 200
    /\ seen.denied >= 2

-----------------------------------------------------------------------------
(* C18 *)

\* C18: a request of a client leaves the limiter's count and window of every
\* other client as they are, and a request that is among the first 100 its
\* client sends in the client's window is not rejected, whatever the other
\* clients have sent.
C18_PerClient ==
    [][ \A ip \in Clients :
          seen'.last.ip = ip =>
              /\ \A other \in Clients \ {ip} :
                    hits'[other] = hits[other] /\ resetTime'[other] = resetTime[other]
              /\ seen'.last.n <= max => ~Rejected' ]_vars

\* a request of ip1 is admitted while ip2 has used up its window
C18_Witness ==
    /\ seen.last.ip = "ip1"
    /\ Answered("root")
    /\ out.res.status = 200
    /\ hits["ip2"] > max
    /\ resetTime["ip2"] > now

-----------------------------------------------------------------------------
(* C12 *)

\* C12: where rows hold references, no two accounts hold the same reference:
\* every upload is stored under a name of its own.
C12_DistinctNames ==
    variant = "fs" =>
        \A i, j \in 1..Len(users) :
            (i # j /\ users[i].profile_image_url # Null) =>
                users[i].profile_image_url # users[j].profile_image_url

-----------------------------------------------------------------------------
(* C14, C19 *)

\* what a retrieve for account i returns in this state: the answer of
\* GET /profile-picture/i where the row holds the bytes, of GET of the
\* reference on the row where it holds a reference
Retrieved(i) ==
    IF variant = "inline"
    THEN IF NoPicture({i}) THEN PictureNotFound
         ELSE [status |-> 200,
               contentType |-> SetContentType(users[i].profile_image_mimetype),
               body |-> users[i].profile_image]
    ELSE IF users[i].profile_image_url = Null \/ Resolve(users[i].profile_image_url) = {}
         THEN NotRouted
         ELSE LET n == CHOOSE n \in Resolve(users[i].profile_image_url) : TRUE IN
              [status |-> 200, contentType |-> MimeOfExt(ExtOf(n)), body |-> files[n]]

\* C14: an account that never had a successful upload has no asset, and for
\* an account that had one a retrieve returns the bytes and the MIME type of
\* the most recent successful upload for it, both of that one upload.
C14_FullReplace ==
    \A i \in 1..Len(users) :
        IF ~seen.upload[i].present
        THEN /\ \A f \in AssetFields : users[i][f] = Null
             /\ Retrieved(i).status = 404
        ELSE /\ Retrieved(i).status = 200
             /\ Retrieved(i).body = seen.upload[i].bytes
             /\ Retrieved(i).contentType = seen.upload[i].mimetype

\* C19: a step of an upload that carries a file for an existing account A
\* leaves the row of every other account B, and what a retrieve for B
\* returns, as they are.
C19_OthersUntouched ==
    [][ \A s \in Slots :
          (/\ conn'[s] # conn[s]
           /\ ~Free(s)
           /\ conn[s].req.route = "upload"
           /\ conn[s].req.file.present
           /\ Named(conn[s].req.userId) # {}) =>
              \A b \in (1..Len(users)) \ Named(conn[s].req.userId) :
                  /\ users'[b] = users[b]
                  /\ Retrieved(b)' = Retrieved(b) ]_vars

-----------------------------------------------------------------------------
(* C15 *)

\* C15: no row holds both a reference and an inline payload; a deployment
\* writes the one shape of its variant only, and where rows hold the bytes,
\* bytes and MIME type of a row are both set or both unset.
C15_OneShape ==
    \A i \in 1..Len(users) :
        /\ ~(users[i].profile_image_url # Null /\ users[i].profile_image # Null)
        /\ variant = "fs" =>
              users[i].profile_image = Null /\ users[i].profile_image_mimetype = Null
        /\ variant = "inline" =>
              /\ users[i].profile_image_url = Null
              /\ users[i].profile_image = Null <=> users[i].profile_image_mimetype = Null

\* where rows hold the bytes, an upload was answered 200: one account has
\* bytes and MIME type, the other has neither
C15_Witness ==
    /\ variant = "inline"
    /\ Answered("upload")
    /\ out.res.status = 200
    /\ \E i, j \in 1..Len(users) :
          /\ users[i].profile_image # Null
          /\ users[i].profile_image_mimetype # Null
          /\ users[j].profile_image = Null

====
